---- MODULE Spec2Model ----
(***************************************************************************)
(* The hybrid order book of src/src/book.rs: per side a dense array window *)
(* (asks / bids), an ordered overflow map (asks_heap / bids_heap), the     *)
(* anchor tick of slot 0 and the index of the best slot.                   *)
(*                                                                         *)
(* Scaling.  Ticks are u32 in the source.  The model keeps the modular     *)
(* arithmetic but shrinks the width: U32_MAX stands for u32::MAX and every *)
(* u32 operation is taken modulo U32_MAX + 1.  Sizes are f64 in the        *)
(* source; the model measures them in units of EPSILON / 2, so that 0 is   *)
(* the deleted level, 1 a non-zero size below EPSILON, EPSILON the         *)
(* boundary value 1e-15 itself and anything above it an ordinary size.     *)
(*                                                                         *)
(* Overflow.  u32 arithmetic that leaves the range panics in a build with  *)
(* overflow checks and wraps in a build without them.  The model computes  *)
(* the wrapped result and records the first such event in `fault`; the     *)
(* behaviours of a checked build are the prefixes that end where `fault`   *)
(* leaves "none".                                                          *)
(***************************************************************************)
EXTENDS Integers, Sequences, FiniteSets, TLC

\* ---------------------------------------------------------------- bounds
\* u32::MAX of the scaled tick space.
U32_MAX == 5
\* Most levels one side of one TickUpdate carries.
MaxLevels == 2
\* Largest sequence id a producer sends.
MaxSeq == 2
\* Decimals::new is tried on every integer from -MaxDecimalsInput to
\* MaxDecimalsInput.
MaxDecimalsInput == 260
\* OrderBook::new is tried with CACHE_EMPTY_SLOTS up to MaxEmptySlots and
\* with CACHE_SLOTS up to twice that plus two, and around u16::MAX.
MaxEmptySlots == 3
\* Highest tick of the producer that sends both sides at once.
MaxCrossingTick == 3

\* ------------------------------------------------------ program constants
\* OrderBook<4, 1>, the instantiation of the rebalance tests.
CACHE_SLOTS == 4
CACHE_EMPTY_SLOTS == 1
\* pub const EPSILON: f64 = 1e-15, in units of EPSILON / 2.
EPSILON == 2
\* u16::MAX + 1, the modulus of an `as u16` cast.
U16_MODULUS == 65536
U16_MAX == U16_MODULUS - 1
\* u8::MAX, the largest value try_into::<u8>() accepts.
U8_MAX == 255
\* lookup_tables::MAX_DECIMALS: decimals range over [0, 18].
MAX_DECIMALS == 18

Modulus == U32_MAX + 1
Ticks == 0 .. U32_MAX
Slots == 0 .. (CACHE_SLOTS - 1)
\* 0.0 (deletion), exactly EPSILON, and an ordinary size.
Sizes == {0, EPSILON, EPSILON + 1}
SeqIds == 0 .. MaxSeq

\* ------------------------------------------------------------- arithmetic
wrapping_add(a, b) == (a + b) % Modulus
wrapping_sub(a, b) == (a - b + Modulus) % Modulus
saturating_sub(a, b) == IF a >= b THEN a - b ELSE 0
as_u16(x) == x % U16_MODULUS

\* ---------------------------------------------------------------- BTreeMap
EmptyHeap == [k \in {} |-> 0]
heap_upsert(heap, tick, size) ==
    [k \in (DOMAIN heap) \cup {tick} |-> IF k = tick THEN size ELSE heap[k]]
heap_remove(heap, tick) ==
    [k \in (DOMAIN heap) \ {tick} |-> heap[k]]

\* ------------------------------------------------------------------ loops
\* for i in lo..hi { acc = Body(acc, i) }
RECURSIVE ForRange(_, _, _, _)
ForRange(Body(_, _), acc, lo, hi) ==
    IF lo >= hi THEN acc ELSE ForRange(Body, Body(acc, lo), lo + 1, hi)

\* for i in (lo..hi).rev() { acc = Body(acc, i) }
RECURSIVE ForRangeRev(_, _, _, _)
ForRangeRev(Body(_, _), acc, lo, hi) ==
    IF lo >= hi THEN acc ELSE ForRangeRev(Body, Body(acc, hi - 1), lo, hi - 1)

\* for x in seq { acc = Body(acc, x) }
RECURSIVE ForEach(_, _, _)
ForEach(Body(_, _), acc, seq) ==
    IF seq = <<>> THEN acc ELSE ForEach(Body, Body(acc, Head(seq)), Tail(seq))

\* ----------------------------------------------------------------- faults
\* The first arithmetic overflow, failed debug assertion or out-of-range
\* index of the book's life; "none" while there has been none.
Raise(b, f) == IF b.fault = "none" THEN [b EXCEPT !.fault = f] ELSE b
RaiseIf(b, cond, f) == IF cond THEN Raise(b, f) ELSE b

\* ------------------------------------------------------------------- new
\* A constructor that starts both sides from the same anchor.
new_anchored_at_zero ==
    [ sequence_id |-> 0,
      asks_0_tick |-> 0,
      bids_0_tick |-> 0,
      best_ask_i  |-> 0,
      best_bid_i  |-> 0,
      asks        |-> [i \in Slots |-> 0],
      bids        |-> [i \in Slots |-> 0],
      asks_heap   |-> EmptyHeap,
      bids_heap   |-> EmptyHeap,
      fault       |-> "none" ]

new ==
    [ sequence_id |-> 0,
      asks_0_tick |-> U32_MAX,
      bids_0_tick |-> 0,
      best_ask_i  |-> 0,
      best_bid_i  |-> 0,
      asks        |-> [i \in Slots |-> 0],
      bids        |-> [i \in Slots |-> 0],
      asks_heap   |-> EmptyHeap,
      bids_heap   |-> EmptyHeap,
      fault       |-> "none" ]

\* OrderBook::new of src/src/lib.rs, the definition the crate root exports.
lib_new ==
    [ sequence_id |-> 0,
      asks_0_tick |-> U32_MAX,
      bids_0_tick |-> 0,
      best_ask_i  |-> 0,
      best_bid_i  |-> 0,
      asks        |-> [i \in Slots |-> 0],
      bids        |-> [i \in Slots |-> 0],
      asks_heap   |-> EmptyHeap,
      bids_heap   |-> EmptyHeap,
      fault       |-> "none" ]

\* ------------------------------------------------------------ insert_ask
\* An insert that keeps a deleted level in the heap, with its size.
insert_ask_keeping_deleted(b, ask) ==
    LET i == wrapping_sub(ask.tick, b.asks_0_tick)
    IN  IF i < CACHE_SLOTS
          THEN [b EXCEPT !.asks[i] = ask.size]
        ELSE [b EXCEPT !.asks_heap = heap_upsert(@, ask.tick, ask.size)]

insert_ask(b, ask) ==
    LET b1 == RaiseIf(b, ~(ask.tick >= b.asks_0_tick), "insert_ask: debug_assert")
        i  == wrapping_sub(ask.tick, b.asks_0_tick)
    IN  IF i < CACHE_SLOTS
          THEN [b1 EXCEPT !.asks[i] = ask.size]
        ELSE IF ask.size < EPSILON
          THEN [b1 EXCEPT !.asks_heap = heap_remove(@, ask.tick)]
        ELSE [b1 EXCEPT !.asks_heap = heap_upsert(@, ask.tick, ask.size)]

\* ------------------------------------------------------------ insert_bid
\* An insert that keeps a deleted level in the heap, with its size.
insert_bid_keeping_deleted(b, bid) ==
    LET i == wrapping_sub(b.bids_0_tick, bid.tick)
    IN  IF i < CACHE_SLOTS
          THEN [b EXCEPT !.bids[i] = bid.size]
        ELSE [b EXCEPT !.bids_heap = heap_upsert(@, bid.tick, bid.size)]

insert_bid(b, bid) ==
    LET b1 == RaiseIf(b, ~(bid.tick <= b.bids_0_tick), "insert_bid: debug_assert")
        i  == wrapping_sub(b.bids_0_tick, bid.tick)
    IN  IF i < CACHE_SLOTS
          THEN [b1 EXCEPT !.bids[i] = bid.size]
        ELSE IF bid.size < EPSILON
          THEN [b1 EXCEPT !.bids_heap = heap_remove(@, bid.tick)]
        ELSE [b1 EXCEPT !.bids_heap = heap_upsert(@, bid.tick, bid.size)]

\* --------------------------------------------------- rebalance_asks_lower
rebalance_asks_lower(b, lowest_tick) ==
    LET b1 == RaiseIf(b, ~(lowest_tick < b.asks_0_tick),
                      "rebalance_asks_lower: debug_assert")
        new_asks_0_tick == saturating_sub(lowest_tick, CACHE_EMPTY_SLOTS)
        b2 == RaiseIf(b1, b.asks_0_tick < new_asks_0_tick,
                      "rebalance_asks_lower: shift overflow")
        shift == wrapping_sub(b.asks_0_tick, new_asks_0_tick)
        i_eviction_start == IF shift >= CACHE_SLOTS THEN 0 ELSE CACHE_SLOTS - shift
        Evict(s, i) ==
            IF s.asks[i] > EPSILON
              THEN LET s1   == RaiseIf(s, i + s.asks_0_tick > U32_MAX,
                                       "rebalance_asks_lower: tick overflow")
                       tick == wrapping_add(i, s.asks_0_tick)
                   IN  [s1 EXCEPT !.asks_heap = heap_upsert(@, tick, s.asks[i]),
                                  !.asks[i] = 0]
              ELSE s
        b3 == ForRange(Evict, b2, i_eviction_start, CACHE_SLOTS)
        Move(s, i) ==
            IF i + shift \in Slots
              THEN [s EXCEPT !.asks = [[@ EXCEPT ![i + shift] = s.asks[i]]
                                          EXCEPT ![i] = 0]]
              ELSE Raise(s, "rebalance_asks_lower: index")
        b4 == ForRangeRev(Move, b3, 0, i_eviction_start)
    IN  [b4 EXCEPT !.asks_0_tick = new_asks_0_tick]

\* -------------------------------------------------- rebalance_bids_higher
rebalance_bids_higher(b, highest_tick) ==
    LET b1 == RaiseIf(b, ~(highest_tick > b.bids_0_tick),
                      "rebalance_bids_higher: debug_assert")
        b2 == RaiseIf(b1, highest_tick + CACHE_EMPTY_SLOTS > U32_MAX,
                      "rebalance_bids_higher: anchor overflow")
        new_bids_0_tick == wrapping_add(highest_tick, CACHE_EMPTY_SLOTS)
        b3 == RaiseIf(b2, new_bids_0_tick < b.bids_0_tick,
                      "rebalance_bids_higher: shift overflow")
        shift == wrapping_sub(new_bids_0_tick, b.bids_0_tick)
        i_eviction_start == IF shift >= CACHE_SLOTS THEN 0 ELSE CACHE_SLOTS - shift
        Evict(s, i) ==
            IF s.bids[i] > EPSILON
              THEN LET s1   == RaiseIf(s, s.bids_0_tick < i,
                                       "rebalance_bids_higher: tick overflow")
                       tick == wrapping_sub(s.bids_0_tick, i)
                   IN  [s1 EXCEPT !.bids_heap = heap_upsert(@, tick, s.bids[i]),
                                  !.bids[i] = 0]
              ELSE s
        b4 == ForRange(Evict, b3, i_eviction_start, CACHE_SLOTS)
        Move(s, i) ==
            IF i + shift \in Slots
              THEN [s EXCEPT !.bids = [[@ EXCEPT ![i + shift] = s.bids[i]]
                                          EXCEPT ![i] = 0]]
              ELSE Raise(s, "rebalance_bids_higher: index")
        b5 == ForRangeRev(Move, b4, 0, i_eviction_start)
    IN  [b5 EXCEPT !.bids_0_tick = new_bids_0_tick]

\* ----------------------------------- rebalance_asks_higher_and_update_best
\* A Step C that finds the best slot but never compacts the window.
update_best_ask_without_compaction(b) ==
    IF b.best_ask_i \notin Slots \/ b.asks[b.best_ask_i] > EPSILON
      THEN b
    ELSE
      LET live == {i \in Slots : b.asks[i] > EPSILON}
      IN  IF live = {} THEN b
          ELSE [b EXCEPT !.best_ask_i = CHOOSE i \in live : \A j \in live : i <= j]

rebalance_asks_higher_and_update_best(b) ==
    IF b.best_ask_i \notin Slots
      THEN Raise(b, "rebalance_asks_higher_and_update_best: index")
    ELSE IF b.asks[b.best_ask_i] > EPSILON
      THEN b
    ELSE
      LET live == {i \in Slots : b.asks[i] > EPSILON}
          \* for i in 0..CACHE_SLOTS { if asks[i] > EPSILON { best = i; break } }
          b1 == IF live = {} THEN b
                ELSE [b EXCEPT !.best_ask_i =
                                   CHOOSE i \in live : \A j \in live : i <= j]
      IN  IF b1.best_ask_i > CACHE_EMPTY_SLOTS * 2
            THEN
              LET shift == b1.best_ask_i - CACHE_EMPTY_SLOTS
                  b2 == RaiseIf(b1, b1.asks_0_tick + shift > U32_MAX,
                          "rebalance_asks_higher_and_update_best: anchor overflow")
                  b3 == [b2 EXCEPT !.asks_0_tick = wrapping_add(@, shift),
                                   !.best_ask_i = @ - shift]
                  Copy(s, i) == [s EXCEPT !.asks[i] = s.asks[i + shift]]
                  b4 == ForRange(Copy, b3, CACHE_EMPTY_SLOTS, CACHE_SLOTS - shift)
                  Refill(s, i) ==
                      LET s1   == RaiseIf(s, s.asks_0_tick + i > U32_MAX,
                            "rebalance_asks_higher_and_update_best: tick overflow")
                          tick == wrapping_add(s.asks_0_tick, i)
                      IN  IF tick \in DOMAIN s.asks_heap
                            THEN [s1 EXCEPT !.asks[i] = s.asks_heap[tick],
                                            !.asks_heap = heap_remove(@, tick)]
                            ELSE [s1 EXCEPT !.asks[i] = 0]
              IN  ForRange(Refill, b4, CACHE_SLOTS - shift, CACHE_SLOTS)
            ELSE b1

\* ------------------------------------ rebalance_bids_lower_and_update_best
\* A Step C that finds the best slot but never compacts the window.
update_best_bid_without_compaction(b) ==
    IF b.best_bid_i \notin Slots \/ b.bids[b.best_bid_i] > EPSILON
      THEN b
    ELSE
      LET live == {i \in Slots : b.bids[i] > EPSILON}
      IN  IF live = {} THEN b
          ELSE [b EXCEPT !.best_bid_i = CHOOSE i \in live : \A j \in live : i <= j]

rebalance_bids_lower_and_update_best(b) ==
    IF b.best_bid_i \notin Slots
      THEN Raise(b, "rebalance_bids_lower_and_update_best: index")
    ELSE IF b.bids[b.best_bid_i] > EPSILON
      THEN b
    ELSE
      LET live == {i \in Slots : b.bids[i] > EPSILON}
          \* for i in 0..CACHE_SLOTS { if bids[i] > EPSILON { best = i; break } }
          b1 == IF live = {} THEN b
                ELSE [b EXCEPT !.best_bid_i =
                                   CHOOSE i \in live : \A j \in live : i <= j]
      IN  IF b1.best_bid_i > CACHE_EMPTY_SLOTS * 2
            THEN
              LET shift == b1.best_bid_i - CACHE_EMPTY_SLOTS
                  b2 == RaiseIf(b1, b1.bids_0_tick < shift,
                          "rebalance_bids_lower_and_update_best: anchor overflow")
                  b3 == [b2 EXCEPT !.bids_0_tick = wrapping_sub(@, shift),
                                   !.best_bid_i = @ - shift]
                  Copy(s, i) == [s EXCEPT !.bids[i] = s.bids[i + shift]]
                  b4 == ForRange(Copy, b3, CACHE_EMPTY_SLOTS, CACHE_SLOTS - shift)
                  Refill(s, i) ==
                      LET s1   == RaiseIf(s, s.bids_0_tick < i,
                            "rebalance_bids_lower_and_update_best: tick overflow")
                          tick == wrapping_sub(s.bids_0_tick, i)
                      IN  IF tick \in DOMAIN s.bids_heap
                            THEN [s1 EXCEPT !.bids[i] = s.bids_heap[tick],
                                            !.bids_heap = heap_remove(@, tick)]
                            ELSE [s1 EXCEPT !.bids[i] = 0]
              IN  ForRange(Refill, b4, CACHE_SLOTS - shift, CACHE_SLOTS)
            ELSE b1

\* ---------------------------------------------------- process_tick_update
\* Step A and Step B of the ask side: the book as Step C finds it.
insert_asks(b, new_asks) ==
    LET b1 == IF new_asks = <<>> THEN b
              ELSE
                LET lowest_ask == Head(new_asks)
                    a1 == IF lowest_ask.tick < b.asks_0_tick
                            THEN LET r == rebalance_asks_lower(b, lowest_ask.tick)
                                 IN  [r EXCEPT !.best_ask_i = as_u16(
                                        wrapping_sub(lowest_ask.tick, r.asks_0_tick))]
                          ELSE
                            LET c == RaiseIf(b, b.best_ask_i + b.asks_0_tick > U32_MAX,
                                             "process_tick_update: asks overflow")
                            IN  IF lowest_ask.tick
                                     < wrapping_add(b.best_ask_i, b.asks_0_tick)
                                  THEN [c EXCEPT !.best_ask_i = as_u16(
                                          wrapping_sub(lowest_ask.tick, c.asks_0_tick))]
                                  ELSE c
                IN  insert_ask(a1, lowest_ask)
    IN  IF new_asks = <<>> THEN b1 ELSE ForEach(insert_ask, b1, Tail(new_asks))

\* Step A to Step C of the ask side.
process_asks(b, new_asks) ==
    rebalance_asks_higher_and_update_best(insert_asks(b, new_asks))

\* Step A and Step B of the bid side: the book as Step C finds it.
insert_bids(b, new_bids) ==
    LET b1 == IF new_bids = <<>> THEN b
              ELSE
                LET highest_bid == Head(new_bids)
                    a1 == IF highest_bid.tick > b.bids_0_tick
                            THEN LET r == rebalance_bids_higher(b, highest_bid.tick)
                                     r1 == RaiseIf(r, r.bids_0_tick < highest_bid.tick,
                                             "process_tick_update: best_bid_i overflow")
                                 IN  [r1 EXCEPT !.best_bid_i = as_u16(
                                        wrapping_sub(r.bids_0_tick, highest_bid.tick))]
                          ELSE
                            LET c == RaiseIf(b, b.bids_0_tick < b.best_bid_i,
                                             "process_tick_update: bids overflow")
                            IN  IF highest_bid.tick
                                     > wrapping_sub(b.bids_0_tick, b.best_bid_i)
                                  THEN [c EXCEPT !.best_bid_i = as_u16(
                                          wrapping_sub(c.bids_0_tick, highest_bid.tick))]
                                  ELSE c
                IN  insert_bid(a1, highest_bid)
    IN  IF new_bids = <<>> THEN b1 ELSE ForEach(insert_bid, b1, Tail(new_bids))

\* Step A to Step C of the bid side.
process_bids(b, new_bids) ==
    rebalance_bids_lower_and_update_best(insert_bids(b, new_bids))

\* A book that refuses to cross: bids at or above the best ask are dropped.
process_tick_update_uncrossing(b, update) ==
    LET b0 == [b EXCEPT !.sequence_id = update.sequence_id]
        a  == process_asks(b0, update.asks)
        crossing(bid) == /\ ~(a.asks[a.best_ask_i] < EPSILON)
                         /\ bid.tick >= a.asks_0_tick + a.best_ask_i
    IN  process_bids(a, SelectSeq(update.bids, LAMBDA bid : ~crossing(bid)))

\* A book that checks ids: an update whose id is below the stored one is
\* dropped, its id and its levels with it.
process_tick_update_dropping_stale(b, update) ==
    IF update.sequence_id < b.sequence_id
    THEN b
    ELSE process_bids(process_asks([b EXCEPT !.sequence_id = update.sequence_id],
                                   update.asks), update.bids)

\* A book that takes every update for a snapshot, as BTreeOrderBook of
\* src/src/old_book.rs does: the levels held are dropped first.
process_tick_update_as_snapshot(b, update) ==
    LET b0 == [b EXCEPT !.sequence_id = update.sequence_id,
                        !.asks = [i \in Slots |-> 0], !.asks_heap = EmptyHeap,
                        !.bids = [i \in Slots |-> 0], !.bids_heap = EmptyHeap]
    IN  process_bids(process_asks(b0, update.asks), update.bids)

process_tick_update(b, update) ==
    LET b0 == [b EXCEPT !.sequence_id = update.sequence_id]
    IN  process_bids(process_asks(b0, update.asks), update.bids)

\* --------------------------------------------------------------- Decimals
\* value.try_into(): the u8 of the same value, or an error.
try_into_u8(value) ==
    IF 0 <= value /\ value <= U8_MAX
    THEN [ok |-> TRUE, value |-> value]
    ELSE [ok |-> FALSE, value |-> 0]

DecimalRangeError == [ok |-> FALSE, error |-> "DecimalRangeError"]

\* A constructor that trusts every u8.
Decimals_new_unchecked(value) ==
    LET converted == try_into_u8(value)
    IN  IF ~converted.ok THEN DecimalRangeError
        ELSE [ok |-> TRUE, decimals |-> converted.value]

\* Decimals::new, which every TryFrom<u8 / u16 / u32 / u64> forwards to.
Decimals_new(value) ==
    LET converted == try_into_u8(value)
    IN  IF ~converted.ok THEN DecimalRangeError
        ELSE IF converted.value <= MAX_DECIMALS
             THEN [ok |-> TRUE, decimals |-> converted.value]
             ELSE DecimalRangeError

\* Decimals::value
Decimals_value(d) == d.decimals

\* ------------------------------------------------- construction constraints
\* The const assertions of OrderBook::new in src/src/book.rs.
new_accepts(cache_slots, cache_empty_slots) ==
    /\ cache_slots < U16_MAX
    /\ cache_slots > cache_empty_slots * 2

\* The const assertions of OrderBook::new in src/src/lib.rs.
lib_new_accepts(cache_slots, cache_empty_slots) ==
    /\ cache_slots < U16_MAX
    /\ cache_slots > cache_empty_slots

\* The calls tried.
NoConstruction == [kind |-> "none", done |-> FALSE]
DecimalsCalls ==
    {[kind |-> "Decimals", value |-> v, done |-> FALSE, result |-> DecimalRangeError] :
        v \in (0 - MaxDecimalsInput) .. MaxDecimalsInput}
OrderBookCalls ==
    {[kind |-> "OrderBook", CACHE_SLOTS |-> cs, CACHE_EMPTY_SLOTS |-> ces,
      done |-> FALSE, result |-> [book |-> FALSE, lib |-> FALSE]] :
        cs \in (0 .. (2 * MaxEmptySlots + 2)) \cup ((U16_MAX - 2) .. (U16_MAX + 2)),
        ces \in 0 .. MaxEmptySlots}

\* ------------------------------------------------------------- TickUpdate
TickLevel == [tick : Ticks, size : Sizes]
\* Levels that are a deletion or carry an ordinary size.
PlainLevel == [tick : Ticks, size : {0, EPSILON + 1}]
\* Levels of both sides over the same few ticks.
CrossingLevel == [tick : 1 .. MaxCrossingTick, size : {0, EPSILON + 1}]

\* Level lists of exactly n levels, sorted lowest to highest tick.
RECURSIVE AscendingOfLen(_)
AscendingOfLen(n) ==
    IF n = 0 THEN {<<>>}
    ELSE {Append(s, l) : <<s, l>> \in
            {p \in AscendingOfLen(n - 1) \X TickLevel :
                p[1] = <<>> \/ p[1][Len(p[1])].tick < p[2].tick}}

\* Level lists of exactly n levels, sorted highest to lowest tick.
RECURSIVE DescendingOfLen(_)
DescendingOfLen(n) ==
    IF n = 0 THEN {<<>>}
    ELSE {Append(s, l) : <<s, l>> \in
            {p \in DescendingOfLen(n - 1) \X TickLevel :
                p[1] = <<>> \/ p[1][Len(p[1])].tick > p[2].tick}}

\* invariant: ask_levels must be sorted lowest to highest price
AskLevels == UNION {AscendingOfLen(n) : n \in 0 .. MaxLevels}
\* invariant: bid_levels must be sorted highest to lowest price
BidLevels == UNION {DescendingOfLen(n) : n \in 0 .. MaxLevels}

\* ------------------------------------------------------------------ state
VARIABLES
    sequence_id, asks_0_tick, bids_0_tick, best_ask_i, best_bid_i,
    asks, bids, asks_heap, bids_heap,
    fault,          \* first overflow / failed assertion / bad index, or "none"
    untouched,      \* TRUE until the first call of process_tick_update
    construction,   \* a constructor call: its arguments and, once run, its result
    feed,           \* the producer attached to the book: which sides it sends
    received_asks,  \* last size received for each ask tick (0: none or deleted);
                    \* under the baseline producer, the ask list of the last call
    received_bids,  \* last size received for each bid tick; likewise
    sent_sequence_id,   \* update.sequence_id of the last call
    prior_sequence_id,  \* sequence_id() before the last call
    reference,      \* a second book, sent the same levels under sequence id 0
                    \* (or, by the mirror producer, the reflected levels);
                    \* the OrderBook of lib.rs or the BTreeOrderBook of
                    \* old_book.rs where those are the book under study
    one_sided       \* two more books: one sent the asks only, one the bids only

book_vars == <<sequence_id, asks_0_tick, bids_0_tick, best_ask_i, best_bid_i,
               asks, bids, asks_heap, bids_heap, fault>>
history_vars == <<received_asks, received_bids>>
sequence_vars == <<sent_sequence_id, prior_sequence_id, reference>>
side_vars == <<one_sided>>
vars == <<book_vars, untouched, construction, feed, history_vars, sequence_vars,
          side_vars>>

\* The book as the record the operations work on.
Book ==
    [ sequence_id |-> sequence_id,
      asks_0_tick |-> asks_0_tick,
      bids_0_tick |-> bids_0_tick,
      best_ask_i  |-> best_ask_i,
      best_bid_i  |-> best_bid_i,
      asks        |-> asks,
      bids        |-> bids,
      asks_heap   |-> asks_heap,
      bids_heap   |-> bids_heap,
      fault       |-> fault ]

SetBook(b) ==
    /\ sequence_id' = b.sequence_id
    /\ asks_0_tick' = b.asks_0_tick
    /\ bids_0_tick' = b.bids_0_tick
    /\ best_ask_i'  = b.best_ask_i
    /\ best_bid_i'  = b.best_bid_i
    /\ asks'        = b.asks
    /\ bids'        = b.bids
    /\ asks_heap'   = b.asks_heap
    /\ bids_heap'   = b.bids_heap
    /\ fault'       = b.fault

\* Last writer wins: every level of the list overwrites the size of its tick.
Received(prev, levels) ==
    [t \in Ticks |->
        LET hits == {k \in 1 .. Len(levels) : levels[k].tick = t}
        IN  IF hits = {} THEN prev[t]
            ELSE levels[CHOOSE k \in hits : \A j \in hits : j <= k].size]

NoneReceived == [t \in Ticks |-> 0]

InitBook ==
    /\ sequence_id = new.sequence_id
    /\ asks_0_tick = new.asks_0_tick
    /\ bids_0_tick = new.bids_0_tick
    /\ best_ask_i  = new.best_ask_i
    /\ best_bid_i  = new.best_bid_i
    /\ asks        = new.asks
    /\ bids        = new.bids
    /\ asks_heap   = new.asks_heap
    /\ bids_heap   = new.bids_heap
    /\ fault       = new.fault
    /\ untouched   = TRUE
    /\ received_asks = NoneReceived
    /\ received_bids = NoneReceived
    /\ sent_sequence_id = 0
    /\ prior_sequence_id = 0
    /\ reference = new
    /\ one_sided = [asks |-> new, bids |-> new]

\* One call of process_tick_update.  A call is made only on a book that has
\* not faulted: a build with overflow checks has panicked there.
ProcessTickUpdate(update) ==
    /\ fault = "none"
    /\ SetBook(process_tick_update(Book, update))
    /\ untouched' = FALSE
    /\ UNCHANGED <<feed, construction>>

\* A producer that sends asks only, as tests::test_rebalance_asks_lower does.
AskFeed ==
    /\ feed = "asks"
    /\ \E new_asks \in AskLevels :
         ProcessTickUpdate([sequence_id |-> 0, asks |-> new_asks, bids |-> <<>>])

\* A producer that sends bids only, as tests::test_rebalance_bids_higher does.
BidFeed ==
    /\ feed = "bids"
    /\ \E new_bids \in BidLevels :
         ProcessTickUpdate([sequence_id |-> 0, asks |-> <<>>, bids |-> new_bids])

\* The same producers with the history of received levels recorded.
AskFeedRecorded ==
    /\ feed = "asks"
    /\ \E new_asks \in AskLevels :
         /\ ProcessTickUpdate([sequence_id |-> 0, asks |-> new_asks, bids |-> <<>>])
         /\ received_asks' = Received(received_asks, new_asks)
         /\ UNCHANGED <<received_bids, sequence_vars, side_vars>>

BidFeedRecorded ==
    /\ feed = "bids"
    /\ \E new_bids \in BidLevels :
         /\ ProcessTickUpdate([sequence_id |-> 0, asks |-> <<>>, bids |-> new_bids])
         /\ received_bids' = Received(received_bids, new_bids)
         /\ UNCHANGED <<received_asks, sequence_vars, side_vars>>

\* Producers that number their updates in any order: the id of an update may
\* be lower than, equal to or ahead of the stored one.  They send one level
\* at a time, as tests::best_ask and tests::best_bid do.
Sequenced(update) ==
    /\ ProcessTickUpdate(update)
    /\ sent_sequence_id' = update.sequence_id
    /\ prior_sequence_id' = sequence_id
    /\ reference' = process_tick_update(reference, [update EXCEPT !.sequence_id = 0])
    /\ UNCHANGED <<history_vars, side_vars>>

AskFeedSequenced ==
    /\ feed = "asks"
    /\ \E seq \in SeqIds, new_asks \in {<<>>} \cup {<<l>> : l \in PlainLevel} :
         Sequenced([sequence_id |-> seq, asks |-> new_asks, bids |-> <<>>])

BidFeedSequenced ==
    /\ feed = "bids"
    /\ \E seq \in SeqIds, new_bids \in {<<>>} \cup {<<l>> : l \in PlainLevel} :
         Sequenced([sequence_id |-> seq, asks |-> <<>>, bids |-> new_bids])

\* A producer that sends both sides in one update, one level a side, at
\* ticks where bids and asks meet and cross.
TwoSidedFeed ==
    /\ feed = "both"
    /\ \E new_asks \in {<<>>} \cup {<<l>> : l \in CrossingLevel},
          new_bids \in {<<>>} \cup {<<l>> : l \in CrossingLevel} :
         /\ ProcessTickUpdate([sequence_id |-> 0, asks |-> new_asks, bids |-> new_bids])
         /\ one_sided' =
               [asks |-> process_tick_update(one_sided.asks,
                            [sequence_id |-> 0, asks |-> new_asks, bids |-> <<>>]),
                bids |-> process_tick_update(one_sided.bids,
                            [sequence_id |-> 0, asks |-> <<>>, bids |-> new_bids])]
         /\ UNCHANGED <<history_vars, sequence_vars>>

InitTwoSided ==
    /\ InitBook
    /\ feed = "both"
    /\ construction = NoConstruction

SpecTwoSided == InitTwoSided /\ [][TwoSidedFeed]_vars

Init ==
    /\ InitBook
    /\ feed \in {"asks", "bids"}
    /\ construction = NoConstruction

\* ------------------------------------------------------------ constructors
\* The constructors on their own: a call is drawn, then run.
InitConstruction ==
    /\ InitBook
    /\ feed = "none"
    /\ construction \in DecimalsCalls \cup OrderBookCalls

DecimalsNew ==
    /\ construction.kind = "Decimals"
    /\ ~construction.done
    /\ construction' = [construction EXCEPT !.done = TRUE,
                                            !.result = Decimals_new(construction.value)]
    /\ UNCHANGED <<book_vars, untouched, feed, history_vars, sequence_vars, side_vars>>

OrderBookNew ==
    /\ construction.kind = "OrderBook"
    /\ ~construction.done
    /\ construction' =
          [construction EXCEPT
              !.done = TRUE,
              !.result = [book |-> new_accepts(construction.CACHE_SLOTS,
                                               construction.CACHE_EMPTY_SLOTS),
                          lib  |-> lib_new_accepts(construction.CACHE_SLOTS,
                                                   construction.CACHE_EMPTY_SLOTS)]]
    /\ UNCHANGED <<book_vars, untouched, feed, history_vars, sequence_vars, side_vars>>

NextConstruction == DecimalsNew \/ OrderBookNew

SpecConstruction == InitConstruction /\ [][NextConstruction]_vars

Next ==
    \/ AskFeed /\ UNCHANGED <<history_vars, sequence_vars, side_vars>>
    \/ BidFeed /\ UNCHANGED <<history_vars, sequence_vars, side_vars>>

Spec == Init /\ [][Next]_vars

NextRecorded == AskFeedRecorded \/ BidFeedRecorded

SpecRecorded == Init /\ [][NextRecorded]_vars

NextSequenced == AskFeedSequenced \/ BidFeedSequenced

SpecSequenced == Init /\ [][NextSequenced]_vars

\* ------------------------------------------------------------------ reads
\* A size is absent when it is strictly below EPSILON.
IsLive(size) == ~(size < EPSILON)

\* The keys of a BTreeMap in ascending order.
RECURSIVE AscendingKeys(_)
AscendingKeys(keys) ==
    IF keys = {} THEN <<>>
    ELSE LET least == CHOOSE k \in keys : \A j \in keys : k <= j
         IN  <<least>> \o AscendingKeys(keys \ {least})

Reverse(seq) == [k \in 1 .. Len(seq) |-> seq[Len(seq) + 1 - k]]

\* asks(): the array from best_ask_i on, slots below EPSILON skipped, then
\* the heap in ascending key order.  A level is given by its tick; the price
\* is the tick times 10^-decimals, which keeps the order of the ticks.
asks_iter ==
    LET cache == [k \in 1 .. CACHE_SLOTS |->
                    [tick |-> wrapping_add(asks_0_tick, k - 1), size |-> asks[k - 1],
                     i |-> k - 1]]
        kept  == SelectSeq(cache, LAMBDA l : l.i >= best_ask_i /\ ~(l.size < EPSILON))
        keys  == AscendingKeys(DOMAIN asks_heap)
    IN  [k \in 1 .. Len(kept) |-> [tick |-> kept[k].tick, size |-> kept[k].size]]
        \o [k \in 1 .. Len(keys) |-> [tick |-> keys[k], size |-> asks_heap[keys[k]]]]

\* bids(): the array from best_bid_i on, then the heap in descending key order.
bids_iter ==
    LET cache == [k \in 1 .. CACHE_SLOTS |->
                    [tick |-> wrapping_sub(bids_0_tick, k - 1), size |-> bids[k - 1],
                     i |-> k - 1]]
        kept  == SelectSeq(cache, LAMBDA l : l.i >= best_bid_i /\ ~(l.size < EPSILON))
        keys  == Reverse(AscendingKeys(DOMAIN bids_heap))
    IN  [k \in 1 .. Len(kept) |-> [tick |-> kept[k].tick, size |-> kept[k].size]]
        \o [k \in 1 .. Len(keys) |-> [tick |-> keys[k], size |-> bids_heap[keys[k]]]]

\* best_ask() / best_bid(): anchor and best index, and the size of that slot.
best_ask == [tick |-> wrapping_add(asks_0_tick, best_ask_i), size |-> asks[best_ask_i]]
best_bid == [tick |-> wrapping_sub(bids_0_tick, best_bid_i), size |-> bids[best_bid_i]]

\* The live levels a side holds, as (tick, size) pairs: slot i of asks stands
\* for tick asks_0_tick + i, slot i of bids for tick bids_0_tick - i.
LiveAskSlots == {i \in Slots : IsLive(asks[i])}
LiveBidSlots == {i \in Slots : IsLive(bids[i])}
LiveAsks ==
    {<<asks_0_tick + i, asks[i]>> : i \in LiveAskSlots}
        \cup {<<k, asks_heap[k]>> : k \in DOMAIN asks_heap}
LiveBids ==
    {<<bids_0_tick - i, bids[i]>> : i \in LiveBidSlots}
        \cup {<<k, bids_heap[k]>> : k \in DOMAIN bids_heap}

\* The last-writer-wins aggregate of the levels received, deletions dropped.
Aggregate(received) == {<<t, received[t]>> : t \in {x \in Ticks : IsLive(received[x])}}

\* ----------------------------------------------------------------- claims
Min(S) == CHOOSE x \in S : \A y \in S : x <= y

StrictlyAscending(levels) ==
    \A k \in 1 .. Len(levels) - 1 : levels[k].tick < levels[k + 1].tick
StrictlyDescending(levels) ==
    \A k \in 1 .. Len(levels) - 1 : levels[k].tick > levels[k + 1].tick

\* C1 (conservation): after any sequence of updates, the live levels of a
\* side, array slots and heap entries together, are exactly the
\* last-writer-wins aggregate of the levels received, deletions removed.
C1_Conservation ==
    /\ LiveAsks = Aggregate(received_asks)
    /\ LiveBids = Aggregate(received_bids)

\* C2 (top of book): when a side holds a live level, in the array or in the
\* heap, best_ask() is the lowest live ask and best_bid() the highest live
\* bid, each the first level its iterator yields; a size below EPSILON is
\* returned only when the side holds no live level.
C2_BestIsTopOfBook ==
    /\ LiveAsks # {} => /\ asks_iter # <<>>
                        /\ best_ask = Head(asks_iter)
                        /\ best_ask.tick = Min({l[1] : l \in LiveAsks})
    /\ LiveBids # {} => /\ bids_iter # <<>>
                        /\ best_bid = Head(bids_iter)
                        /\ \A l \in LiveBids : l[1] <= best_bid.tick
    /\ best_ask.size < EPSILON => LiveAsks = {}
    /\ best_bid.size < EPSILON => LiveBids = {}

\* C3 (best index): after every update, whenever the array of a side holds
\* a live slot (size >= EPSILON), the best index of that side is the lowest
\* index of a live slot.
C3_BestIndexIsLowestLive ==
    /\ LiveAskSlots # {} => best_ask_i = Min(LiveAskSlots)
    /\ LiveBidSlots # {} => best_bid_i = Min(LiveBidSlots)

\* C4 (heap domain): every key of asks_heap is at or above
\* asks_0_tick + CACHE_SLOTS, every key of bids_heap at or below
\* bids_0_tick - CACHE_SLOTS.
C4_HeapDomain ==
    /\ \A k \in DOMAIN asks_heap : k >= asks_0_tick + CACHE_SLOTS
    /\ \A k \in DOMAIN bids_heap : k <= bids_0_tick - CACHE_SLOTS

\* C5 (no duplication): no tick is at once the tick of a live array slot and
\* a key of the heap of the same side.
C5_NoDuplication ==
    /\ \A i \in LiveAskSlots : asks_0_tick + i \notin DOMAIN asks_heap
    /\ \A i \in LiveBidSlots : bids_0_tick - i \notin DOMAIN bids_heap

\* C6 (iterator order): asks() yields strictly ascending prices, bids()
\* strictly descending prices, and neither yields a size below EPSILON.
C6_IteratorOrder ==
    /\ StrictlyAscending(asks_iter)
    /\ StrictlyDescending(bids_iter)
    /\ \A k \in 1 .. Len(asks_iter) : asks_iter[k].size >= EPSILON
    /\ \A k \in 1 .. Len(bids_iter) : bids_iter[k].size >= EPSILON

\* C7 (sequence id): process_tick_update always stores update.sequence_id
\* and always applies the levels, whether the id is lower than, equal to or
\* ahead of the stored one: sequence_id() is the id of the last update, and
\* the book is the one the same levels build under a constant id.
C7_SequenceIdNeverGates ==
    /\ sequence_id = sent_sequence_id
    /\ [Book EXCEPT !.sequence_id = 0] = reference

\* An update with an id below the stored one has just set a level.
C7_StaleUpdateApplied ==
    /\ sent_sequence_id < prior_sequence_id
    /\ sequence_id = sent_sequence_id
    /\ LiveAskSlots \cup LiveBidSlots # {}
    /\ fault = "none"

\* C8 (completion): under the caller contract every process_tick_update runs
\* to completion: no assertion of insert_ask, insert_bid,
\* rebalance_asks_lower, rebalance_bids_higher fails, no index reaches
\* CACHE_SLOTS, nothing else stops the call.
C8_RunsToCompletion == fault = "none"

\* C9 (favourable anchors): the anchor arithmetic of the favourable
\* rebalances stays in u32 over the whole tick space:
\* highest_tick + CACHE_EMPTY_SLOTS never passes u32::MAX and
\* lowest_tick - CACHE_EMPTY_SLOTS never passes 0.
C9_FavorableAnchorInRange ==
    fault \notin {"rebalance_bids_higher: anchor overflow",
                  "rebalance_asks_lower: anchor overflow"}

\* C10 (reconciliation ticks): the ticks the best reconciliation computes,
\* bids_0_tick - shift, bids_0_tick - i, asks_0_tick + shift and
\* asks_0_tick + i, never pass 0 or u32::MAX.
C10_ReconciliationTicksInRange ==
    fault \notin {"rebalance_asks_higher_and_update_best: anchor overflow",
                  "rebalance_asks_higher_and_update_best: tick overflow",
                  "rebalance_bids_lower_and_update_best: anchor overflow",
                  "rebalance_bids_lower_and_update_best: tick overflow"}

\* C11 (construction): a book returned by new, in either definition of
\* OrderBook, has every slot of asks and bids at 0, both heaps empty,
\* asks_0_tick = u32::MAX, bids_0_tick = 0, both best indices 0 and
\* sequence_id = 0.
C11_FreshBook ==
    /\ untouched =>
          /\ \A i \in Slots : asks[i] = 0 /\ bids[i] = 0
          /\ DOMAIN asks_heap = {} /\ DOMAIN bids_heap = {}
          /\ asks_0_tick = U32_MAX /\ bids_0_tick = 0
          /\ best_ask_i = 0 /\ best_bid_i = 0
          /\ sequence_id = 0
    /\ lib_new = new

\* The book right after construction.
C11_JustConstructed == untouched /\ DOMAIN asks = Slots /\ fault = "none"

AsksOnly(new_asks) == [sequence_id |-> 0, asks |-> new_asks, bids |-> <<>>]
BidsOnly(new_bids) == [sequence_id |-> 0, asks |-> <<>>, bids |-> new_bids]

\* C12 (first update): on a fresh book the first update of a side always
\* goes through the favourable rebalance, whatever its first tick, and
\* leaves the anchor at that tick shifted by CACHE_EMPTY_SLOTS:
\* asks_0_tick = saturating_sub(tick, CACHE_EMPTY_SLOTS),
\* bids_0_tick = tick + CACHE_EMPTY_SLOTS.  Stated for updates whose first
\* level is an ordinary size, which the best reconciliation leaves in place.
C12_FirstUpdateRebalances ==
    [][untouched =>
         /\ \A a \in AskLevels :
              (a # <<>> /\ a[1].size > EPSILON
                        /\ Book' = process_tick_update(Book, AsksOnly(a)))
                 => asks_0_tick' = saturating_sub(a[1].tick, CACHE_EMPTY_SLOTS)
         /\ \A b \in BidLevels :
              (b # <<>> /\ b[1].size > EPSILON
                        /\ Book' = process_tick_update(Book, BidsOnly(b)))
                 => bids_0_tick' = b[1].tick + CACHE_EMPTY_SLOTS]_vars

\* C13 (empty array): after every completed process_tick_update, a side
\* whose array holds no live slot has its best index at 0, also when the
\* update deleted the last live array level of that side.
C13_BestIndexZeroWhenEmpty ==
    fault = "none" =>
        /\ LiveAskSlots = {} => best_ask_i = 0
        /\ LiveBidSlots = {} => best_bid_i = 0

\* C14 (Decimals range): Decimals::new / try_from succeeds exactly for the
\* inputs in [0, 18]: Ok holding the value when 0 <= value <= 18,
\* Err(DecimalRangeError) when the input is negative, does not fit in u8 or
\* is above 18; value() returns the constructed number.
C14_DecimalsRange ==
    (construction.kind = "Decimals" /\ construction.done) =>
        LET value  == construction.value
            result == construction.result
        IN  IF 0 <= value /\ value <= 18
            THEN result.ok /\ Decimals_value(result) = value
            ELSE result = DecimalRangeError

\* A value that fits in u8 but lies above 18 has been rejected.
C14_RejectedAboveRange ==
    /\ construction.kind = "Decimals" /\ construction.done
    /\ construction.value = 19
    /\ construction.result = DecimalRangeError

\* C15 (construction constraints): OrderBook<CACHE_SLOTS, CACHE_EMPTY_SLOTS>
\* ::new is accepted exactly when CACHE_SLOTS < 2^16 and
\* CACHE_SLOTS > 2 * CACHE_EMPTY_SLOTS, in every definition of OrderBook.
C15_ConstructionConstraints ==
    (construction.kind = "OrderBook" /\ construction.done) =>
        LET accepted == /\ construction.CACHE_SLOTS < U16_MODULUS
                        /\ construction.CACHE_SLOTS > 2 * construction.CACHE_EMPTY_SLOTS
        IN  /\ construction.result.book = accepted
            /\ construction.result.lib = accepted

\* C17 (no cross-side coupling): the ask side after process_tick_update
\* depends only on the ask side before and the update's asks, the bid side
\* only on the bid side before and the update's bids; an update that
\* crosses the book is applied unchanged, no level rejected or removed.
AskSide(b) == <<b.asks, b.asks_heap, b.asks_0_tick, b.best_ask_i>>
BidSide(b) == <<b.bids, b.bids_heap, b.bids_0_tick, b.best_bid_i>>
C17_NoCrossSideCoupling ==
    /\ AskSide(Book) = AskSide(one_sided.asks)
    /\ BidSide(Book) = BidSide(one_sided.bids)

\* A crossed book: the best bid is live at or above the live best ask.
C17_CrossedBook ==
    /\ fault = "none"
    /\ IsLive(best_ask.size) /\ IsLive(best_bid.size)
    /\ best_bid.tick >= best_ask.tick

\* C18 (epsilon boundary): a size is absent exactly when it is strictly
\* below EPSILON, uniformly across the book: a level of size exactly
\* EPSILON counts as live for the best reconciliation, is spilled to the
\* heap when its slot is evicted, is kept by the heap insert, and is
\* yielded by asks() / bids().  So after a completed update every level
\* last received with size EPSILON is yielded by the iterator of its side,
\* and the best slot of a side with a live slot is live.
Yields(levels, tick, size) ==
    \E k \in 1 .. Len(levels) : levels[k] = [tick |-> tick, size |-> size]
C18_EpsilonIsLive ==
    fault = "none" =>
        /\ \A t \in Ticks : received_asks[t] = EPSILON => Yields(asks_iter, t, EPSILON)
        /\ \A t \in Ticks : received_bids[t] = EPSILON => Yields(bids_iter, t, EPSILON)
        /\ LiveAskSlots # {} => IsLive(asks[best_ask_i])
        /\ LiveBidSlots # {} => IsLive(bids[best_bid_i])

\* C19 (favourable rebalance result): when the first ask of an update has
\* tick t < asks_0_tick, Step A leaves asks_0_tick = max(0, t -
\* CACHE_EMPTY_SLOTS) and best_ask_i = t - asks_0_tick, and the level is
\* written into that array slot, never into the heap; when the first bid
\* has tick t > bids_0_tick, bids_0_tick = t + CACHE_EMPTY_SLOTS,
\* best_bid_i = CACHE_EMPTY_SLOTS and the level is written into that slot.
\* Stated for a first level of ordinary size, which the best reconciliation
\* leaves where Step A put it.
C19_FavorableRebalanceResult ==
    [][fault = "none" =>
         /\ \A a \in AskLevels :
              (a # <<>> /\ a[1].size > EPSILON /\ a[1].tick < asks_0_tick
                        /\ Book' = process_tick_update(Book, AsksOnly(a)))
                 => /\ asks_0_tick' = saturating_sub(a[1].tick, CACHE_EMPTY_SLOTS)
                    /\ best_ask_i' = a[1].tick - asks_0_tick'
                    /\ asks'[best_ask_i'] = a[1].size
                    /\ a[1].tick \notin DOMAIN asks_heap'
         /\ \A b \in BidLevels :
              (b # <<>> /\ b[1].size > EPSILON /\ b[1].tick > bids_0_tick
                        /\ Book' = process_tick_update(Book, BidsOnly(b)))
                 => /\ bids_0_tick' = b[1].tick + CACHE_EMPTY_SLOTS
                    /\ best_bid_i' = CACHE_EMPTY_SLOTS
                    /\ bids'[best_bid_i'] = b[1].size
                    /\ b[1].tick \notin DOMAIN bids_heap']_vars

\* C20 (favourable rebalance preserves the levels): rebalance_asks_lower /
\* rebalance_bids_higher keep the live levels of the side: every level live
\* in the array before the call is afterwards in the array at index
\* |tick - new anchor| when that index is below CACHE_SLOTS, and otherwise
\* in the heap under its tick with the same size; no heap entry is removed
\* or changed, and no other slot becomes live.  Checked on every book a
\* call can start from and every tick that triggers the rebalance.
Abs(x) == IF x < 0 THEN 0 - x ELSE x

LevelsPreserved(anchor, cache, heap, new_anchor, new_cache, new_heap, tick_of(_, _)) ==
    LET live == {i \in Slots : IsLive(cache[i])}
    IN  /\ \A i \in live :
             LET tick == tick_of(anchor, i)
                 j    == Abs(tick - new_anchor)
             IN  IF j < CACHE_SLOTS
                   THEN new_cache[j] = cache[i]
                   ELSE tick \in DOMAIN new_heap /\ new_heap[tick] = cache[i]
        /\ \A k \in DOMAIN heap : k \in DOMAIN new_heap /\ new_heap[k] = heap[k]
        /\ \A j \in Slots :
             IsLive(new_cache[j]) =>
                 \E i \in live : tick_of(anchor, i) = tick_of(new_anchor, j)

AskTick(anchor, i) == anchor + i
BidTick(anchor, i) == anchor - i

C20_FavorableRebalancePreserves ==
    fault = "none" =>
        /\ \A t \in Ticks :
             t < asks_0_tick =>
                 LET r == rebalance_asks_lower(Book, t)
                 IN  LevelsPreserved(asks_0_tick, asks, asks_heap,
                                     r.asks_0_tick, r.asks, r.asks_heap, AskTick)
        /\ \A t \in Ticks :
             t > bids_0_tick =>
                 LET r == rebalance_bids_higher(Book, t)
                 IN  LevelsPreserved(bids_0_tick, bids, bids_heap,
                                     r.bids_0_tick, r.bids, r.bids_heap, BidTick)

\* C21 (disjoint favourable rebalance): when the favourable rebalance shifts
\* the anchor by CACHE_SLOTS or more, the new window does not overlap the
\* old one: every live array slot is spilled into the heap under its old
\* tick with its size, no slot is copied, and the array holds no live slot
\* when the pending first level is inserted.  Checked on every book a call
\* can start from and every tick that moves the anchor that far.
C21_DisjointRebalanceSpillsAll ==
    fault = "none" =>
        /\ \A t \in Ticks :
             (t < asks_0_tick
                /\ asks_0_tick - saturating_sub(t, CACHE_EMPTY_SLOTS) >= CACHE_SLOTS) =>
                 LET r == rebalance_asks_lower(Book, t)
                 IN  /\ \A i \in LiveAskSlots :
                          /\ AskTick(asks_0_tick, i) \in DOMAIN r.asks_heap
                          /\ r.asks_heap[AskTick(asks_0_tick, i)] = asks[i]
                     /\ \A j \in Slots : ~IsLive(r.asks[j])
        /\ \A t \in Ticks :
             (t > bids_0_tick
                /\ (t + CACHE_EMPTY_SLOTS) - bids_0_tick >= CACHE_SLOTS) =>
                 LET r == rebalance_bids_higher(Book, t)
                 IN  /\ \A i \in LiveBidSlots :
                          /\ BidTick(bids_0_tick, i) \in DOMAIN r.bids_heap
                          /\ r.bids_heap[BidTick(bids_0_tick, i)] = bids[i]
                     /\ \A j \in Slots : ~IsLive(r.bids[j])

\* C22 (new best inside the window): when the first ask of an update has a
\* live size and a tick t with asks_0_tick <= t < asks_0_tick + best_ask_i,
\* the update leaves asks_0_tick unchanged, writes the size into slot
\* t - asks_0_tick and ends with best_ask_i = t - asks_0_tick; no array slot
\* is moved and the heap is left alone: a slot or heap entry whose tick the
\* update does not name is as before.  Symmetrically for a first bid with
\* bids_0_tick - best_bid_i < t <= bids_0_tick.
Named(levels) == {levels[k].tick : k \in 1 .. Len(levels)}

HeapAt(heap, tick) == IF tick \in DOMAIN heap THEN heap[tick] ELSE 0

C22_NewBestInsideWindow ==
    fault = "none" =>
        /\ \A a \in AskLevels \ {<<>>} :
             LET t == a[1].tick
             IN  (IsLive(a[1].size) /\ asks_0_tick <= t /\ t < asks_0_tick + best_ask_i) =>
                     LET r == process_tick_update(Book, AsksOnly(a))
                     IN  /\ r.asks_0_tick = asks_0_tick
                         /\ r.asks[t - asks_0_tick] = a[1].size
                         /\ r.best_ask_i = t - asks_0_tick
                         /\ \A i \in Slots :
                              AskTick(asks_0_tick, i) \notin Named(a) => r.asks[i] = asks[i]
                         /\ \A k \in Ticks \ Named(a) :
                              HeapAt(r.asks_heap, k) = HeapAt(asks_heap, k)
        /\ \A b \in BidLevels \ {<<>>} :
             LET t == b[1].tick
             IN  (IsLive(b[1].size) /\ bids_0_tick - best_bid_i < t /\ t <= bids_0_tick) =>
                     LET r == process_tick_update(Book, BidsOnly(b))
                     IN  /\ r.bids_0_tick = bids_0_tick
                         /\ r.bids[bids_0_tick - t] = b[1].size
                         /\ r.best_bid_i = bids_0_tick - t
                         /\ \A i \in Slots :
                              BidTick(bids_0_tick, i) \notin Named(b) => r.bids[i] = bids[i]
                         /\ \A k \in Ticks \ Named(b) :
                              HeapAt(r.bids_heap, k) = HeapAt(bids_heap, k)

\* C23 (compaction): when after all inserts of a side the previous best
\* slot is not live and the lowest live array index j exceeds
\* 2 * CACHE_EMPTY_SLOTS, Step C moves the anchor by j - CACHE_EMPTY_SLOTS
\* toward the live levels and sets the best index to CACHE_EMPTY_SLOTS;
\* every live array level is kept at the index matching its tick under the
\* new anchor, every heap entry whose tick now falls inside the window is
\* moved into its array slot and removed from the heap, the other heap
\* entries stay; the side's set of live (tick, size) pairs is the same
\* before and after Step C.  Checked on the book every update leaves for
\* Step C, from every book a call can start from.
LiveAsksOf(b) ==
    {<<AskTick(b.asks_0_tick, i), b.asks[i]>> : i \in {s \in Slots : IsLive(b.asks[s])}}
        \cup {<<k, b.asks_heap[k]>> : k \in DOMAIN b.asks_heap}
LiveBidsOf(b) ==
    {<<BidTick(b.bids_0_tick, i), b.bids[i]>> : i \in {s \in Slots : IsLive(b.bids[s])}}
        \cup {<<k, b.bids_heap[k]>> : k \in DOMAIN b.bids_heap}

\* The side as Step C finds it is due for compaction.
CompactionDue(cache, best_i) ==
    LET live == {i \in Slots : IsLive(cache[i])}
    IN  /\ best_i \in Slots
        /\ ~IsLive(cache[best_i])
        /\ live # {}
        /\ Min(live) > 2 * CACHE_EMPTY_SLOTS

C23_Compaction ==
    fault = "none" =>
        /\ \A a \in AskLevels :
             LET pre == insert_asks(Book, a)
             IN  CompactionDue(pre.asks, pre.best_ask_i) =>
                     LET live   == {i \in Slots : IsLive(pre.asks[i])}
                         shift  == Min(live) - CACHE_EMPTY_SLOTS
                         anchor == pre.asks_0_tick + shift
                         post   == rebalance_asks_higher_and_update_best(pre)
                     IN  /\ post.asks_0_tick = anchor
                         /\ post.best_ask_i = CACHE_EMPTY_SLOTS
                         /\ \A i \in live : post.asks[i - shift] = pre.asks[i]
                         /\ \A k \in DOMAIN pre.asks_heap :
                              IF anchor <= k /\ k < anchor + CACHE_SLOTS
                                THEN /\ post.asks[k - anchor] = pre.asks_heap[k]
                                     /\ k \notin DOMAIN post.asks_heap
                                ELSE HeapAt(post.asks_heap, k) = pre.asks_heap[k]
                         /\ LiveAsksOf(post) = LiveAsksOf(pre)
        /\ \A b \in BidLevels :
             LET pre == insert_bids(Book, b)
             IN  CompactionDue(pre.bids, pre.best_bid_i) =>
                     LET live   == {i \in Slots : IsLive(pre.bids[i])}
                         shift  == Min(live) - CACHE_EMPTY_SLOTS
                         anchor == pre.bids_0_tick - shift
                         post   == rebalance_bids_lower_and_update_best(pre)
                     IN  /\ post.bids_0_tick = anchor
                         /\ post.best_bid_i = CACHE_EMPTY_SLOTS
                         /\ \A i \in live : post.bids[i - shift] = pre.bids[i]
                         /\ \A k \in DOMAIN pre.bids_heap :
                              IF anchor - CACHE_SLOTS < k /\ k <= anchor
                                THEN /\ post.bids[anchor - k] = pre.bids_heap[k]
                                     /\ k \notin DOMAIN post.bids_heap
                                ELSE HeapAt(post.bids_heap, k) = pre.bids_heap[k]
                         /\ LiveBidsOf(post) = LiveBidsOf(pre)

\* C24 (anchor stability): process_tick_update leaves asks_0_tick unchanged
\* unless the first ask of the update has a tick below asks_0_tick, or,
\* after all ask inserts, the previous best slot is dead and the lowest live
\* array index exceeds 2 * CACHE_EMPTY_SLOTS.  In particular an update that
\* deletes the best level when the next live index is at most
\* 2 * CACHE_EMPTY_SLOTS only clears that slot and moves best_ask_i to the
\* next live index: no level moves.  The same for bids_0_tick, mirrored.
DeletesBest(levels, best_tick) == levels = <<[tick |-> best_tick, size |-> 0]>>

\* The array once the best slot is cleared, when the best is still close.
NextBestIsClose(cache, best_i) ==
    LET rest == {i \in Slots : IsLive(cache[i])} \ {best_i}
    IN  IsLive(cache[best_i]) /\ rest # {} /\ Min(rest) <= 2 * CACHE_EMPTY_SLOTS

C24_AnchorStability ==
    fault = "none" =>
        /\ \A a \in AskLevels :
             LET pre  == insert_asks(Book, a)
                 post == process_tick_update(Book, AsksOnly(a))
             IN  /\ post.asks_0_tick # asks_0_tick =>
                        \/ a # <<>> /\ a[1].tick < asks_0_tick
                        \/ CompactionDue(pre.asks, pre.best_ask_i)
                 /\ (DeletesBest(a, AskTick(asks_0_tick, best_ask_i))
                        /\ NextBestIsClose(asks, best_ask_i)) =>
                        /\ post.best_ask_i = Min(LiveAskSlots \ {best_ask_i})
                        /\ post.asks = [asks EXCEPT ![best_ask_i] = 0]
                        /\ post.asks_heap = asks_heap
                        /\ post.asks_0_tick = asks_0_tick
        /\ \A b \in BidLevels :
             LET pre  == insert_bids(Book, b)
                 post == process_tick_update(Book, BidsOnly(b))
             IN  /\ post.bids_0_tick # bids_0_tick =>
                        \/ b # <<>> /\ b[1].tick > bids_0_tick
                        \/ CompactionDue(pre.bids, pre.best_bid_i)
                 /\ (DeletesBest(b, BidTick(bids_0_tick, best_bid_i))
                        /\ NextBestIsClose(bids, best_bid_i)) =>
                        /\ post.best_bid_i = Min(LiveBidSlots \ {best_bid_i})
                        /\ post.bids = [bids EXCEPT ![best_bid_i] = 0]
                        /\ post.bids_heap = bids_heap
                        /\ post.bids_0_tick = bids_0_tick

\* C25 (single-level insert): with i the offset of the level's tick from the
\* anchor of its side, insert_ask / insert_bid (a) overwrites array slot i
\* and leaves the heap untouched when i < CACHE_SLOTS, a size of 0 clearing
\* the slot in place; (b) removes the tick from the heap, with no effect if
\* it is absent, and leaves the array untouched when i >= CACHE_SLOTS and
\* the size is below EPSILON; (c) otherwise sets heap[tick] to the size,
\* replacing any previous size, and leaves the array untouched.  It never
\* changes the anchor or the best index, nor anything of the other side.
\* Checked on every book a call can start from and every level on the
\* side of the anchor the inserts are made on.
InsertEffect(cache, heap, i, level, new_cache, new_heap) ==
    IF i < CACHE_SLOTS
      THEN /\ new_cache = [cache EXCEPT ![i] = level.size]
           /\ new_heap = heap
    ELSE IF level.size < EPSILON
      THEN /\ new_cache = cache
           /\ DOMAIN new_heap = DOMAIN heap \ {level.tick}
           /\ \A k \in DOMAIN new_heap : new_heap[k] = heap[k]
    ELSE /\ new_cache = cache
         /\ DOMAIN new_heap = DOMAIN heap \cup {level.tick}
         /\ new_heap[level.tick] = level.size
         /\ \A k \in DOMAIN heap \ {level.tick} : new_heap[k] = heap[k]

C25_SingleLevelInsert ==
    fault = "none" =>
        /\ \A ask \in TickLevel :
             ask.tick >= asks_0_tick =>
                 LET r == insert_ask(Book, ask)
                 IN  /\ InsertEffect(asks, asks_heap, ask.tick - asks_0_tick, ask,
                                     r.asks, r.asks_heap)
                     /\ r.asks_0_tick = asks_0_tick /\ r.best_ask_i = best_ask_i
                     /\ BidSide(r) = BidSide(Book)
                     /\ r.fault = "none"
        /\ \A bid \in TickLevel :
             bid.tick <= bids_0_tick =>
                 LET r == insert_bid(Book, bid)
                 IN  /\ InsertEffect(bids, bids_heap, bids_0_tick - bid.tick, bid,
                                     r.bids, r.bids_heap)
                     /\ r.bids_0_tick = bids_0_tick /\ r.best_bid_i = best_bid_i
                     /\ AskSide(r) = AskSide(Book)
                     /\ r.fault = "none"

\* A book where the three cases of insert_ask all have something to act on:
\* a live slot to clear, a heap entry to remove and to replace.
C25_InsertCasesAtHand ==
    /\ fault = "none"
    /\ LiveAskSlots # {}
    /\ \E k \in DOMAIN asks_heap :
         /\ k - asks_0_tick >= CACHE_SLOTS
         /\ k \notin DOMAIN insert_ask(Book, [tick |-> k, size |-> 0]).asks_heap
         /\ insert_ask(Book, [tick |-> k, size |-> EPSILON]).asks_heap[k] # asks_heap[k]
    /\ insert_ask(Book, [tick |-> asks_0_tick + Min(LiveAskSlots), size |-> 0])
            .asks[Min(LiveAskSlots)] = 0

\* C26 (steady state touches no heap): an update all of whose ask ticks lie
\* in [asks_0_tick, asks_0_tick + CACHE_SLOTS) and all of whose bid ticks
\* lie in (bids_0_tick - CACHE_SLOTS, bids_0_tick], and whose inserts leave
\* the lowest live index of each array at most 2 * CACHE_EMPTY_SLOTS,
\* performs no insertion into and no removal from asks_heap or bids_heap
\* and leaves both anchors unchanged.  Checked for the updates of at most
\* MaxLevels levels, both sides counted, on every book a call can start
\* from.
InWindow(levels, lo, hi) ==
    \A k \in 1 .. Len(levels) : lo <= levels[k].tick /\ levels[k].tick <= hi

LowestLiveIsClose(cache) ==
    \A i \in Slots : IsLive(cache[i]) =>
        \E j \in 0 .. 2 * CACHE_EMPTY_SLOTS : IsLive(cache[j])

C26_SteadyStateTouchesNoHeap ==
    fault = "none" =>
        \A a \in AskLevels, b \in BidLevels :
            (/\ Len(a) + Len(b) <= MaxLevels
             /\ InWindow(a, asks_0_tick, asks_0_tick + CACHE_SLOTS - 1)
             /\ InWindow(b, bids_0_tick - CACHE_SLOTS + 1, bids_0_tick)
             /\ LowestLiveIsClose(insert_asks(Book, a).asks)
             /\ LowestLiveIsClose(insert_bids(Book, b).bids)) =>
                LET r == process_tick_update(Book,
                            [sequence_id |-> 0, asks |-> a, bids |-> b])
                IN  /\ r.asks_heap = asks_heap
                    /\ r.bids_heap = bids_heap
                    /\ r.asks_0_tick = asks_0_tick
                    /\ r.bids_0_tick = bids_0_tick

\* ---------------------------------------------------------------- mirror
\* The reflection t |-> 2^32 - 1 - t of a level list: a bid list, sorted
\* highest first, becomes an ask list, sorted lowest first.
Reflect(levels) ==
    [k \in 1 .. Len(levels) |->
        [tick |-> U32_MAX - levels[k].tick, size |-> levels[k].size]]

\* Ticks CACHE_EMPTY_SLOTS away from both ends: no anchor is clamped.
MirrorTicks == CACHE_EMPTY_SLOTS .. (U32_MAX - CACHE_EMPTY_SLOTS)
MirrorLevels ==
    {levels \in BidLevels : \A k \in 1 .. Len(levels) : levels[k].tick \in MirrorTicks}

\* A producer of bids, and a second book sent the reflected stream as asks.
MirrorFeed ==
    /\ feed = "mirror"
    /\ \E new_bids \in MirrorLevels :
         /\ ProcessTickUpdate(BidsOnly(new_bids))
         /\ reference' = process_tick_update(reference, AsksOnly(Reflect(new_bids)))
         /\ UNCHANGED <<history_vars, sent_sequence_id, prior_sequence_id, side_vars>>

InitMirror ==
    /\ InitBook
    /\ feed = "mirror"
    /\ construction = NoConstruction

SpecMirror == InitMirror /\ [][MirrorFeed]_vars

\* C27 (mirror symmetry): for update streams whose ticks stay away from 0
\* and 2^32 - 1, so that nothing is clamped and nothing wraps, a bid stream
\* leaves the bid side in the mirror image of the ask side left by the
\* reflected stream: the same array contents index by index, the same best
\* index, bids_0_tick = 2^32 - 1 - asks_0_tick, and the heap keys reflected
\* with equal sizes.  One side wraps exactly when the other does.
C27_MirrorSymmetry ==
    /\ (fault = "none") = (reference.fault = "none")
    /\ fault = "none" =>
        /\ bids = reference.asks
        /\ best_bid_i = reference.best_ask_i
        /\ bids_0_tick = U32_MAX - reference.asks_0_tick
        /\ DOMAIN bids_heap = {U32_MAX - k : k \in DOMAIN reference.asks_heap}
        /\ \A k \in DOMAIN reference.asks_heap :
             bids_heap[U32_MAX - k] = reference.asks_heap[k]

\* A bid stream that has rebalanced, spilled into the heap and left live slots.
C27_MirroredWithHeap ==
    /\ feed = "mirror"
    /\ fault = "none"
    /\ bids_heap # EmptyHeap
    /\ LiveBidSlots # {}
    /\ best_bid_i = CACHE_EMPTY_SLOTS

\* C28 (empty list): an update whose asks list is empty leaves the whole
\* ask side as it was, anchor, best index, array and heap, although Step C
\* still runs on it; likewise the bid side for an empty bids list; an
\* update with both lists empty changes the sequence id and nothing else.
\* Checked on every book a call can start from, for every list of the
\* other side and every sequence id.
C28_EmptyListLeavesSide ==
    fault = "none" =>
        /\ \A b \in BidLevels :
             AskSide(process_tick_update(Book, BidsOnly(b))) = AskSide(Book)
        /\ \A a \in AskLevels :
             BidSide(process_tick_update(Book, AsksOnly(a))) = BidSide(Book)
        /\ \A seq \in SeqIds :
             process_tick_update(Book, [sequence_id |-> seq, asks |-> <<>>, bids |-> <<>>])
                = [Book EXCEPT !.sequence_id = seq]

\* A side with a dead best slot, live slots and heap entries: Step C has a
\* scan to run and levels it could move.
C28_StepCHasWork ==
    /\ fault = "none"
    /\ ~IsLive(asks[best_ask_i])
    /\ LiveAskSlots # {}
    /\ asks_heap # EmptyHeap

\* C29 (best index bounded): after every completed process_tick_update
\* best_ask_i <= 2 * CACHE_EMPTY_SLOTS and best_bid_i <= 2 * CACHE_EMPTY_SLOTS,
\* hence both are valid indices below CACHE_SLOTS, also when the array of
\* the side holds no live level.
C29_BestIndexBounded ==
    /\ best_ask_i <= 2 * CACHE_EMPTY_SLOTS
    /\ best_bid_i <= 2 * CACHE_EMPTY_SLOTS
    /\ best_ask_i \in Slots
    /\ best_bid_i \in Slots

\* An update has completed with the best level at the bound.
C29_BestIndexAtBound ==
    /\ ~untouched
    /\ fault = "none"
    /\ best_ask_i = 2 * CACHE_EMPTY_SLOTS
    /\ IsLive(asks[best_ask_i])

\* C30 (heap entries are live): in every reachable state every entry of
\* asks_heap and of bids_heap has a size of at least EPSILON: the heaps
\* never keep a deleted or zero-sized level, so every heap entry that
\* asks() / bids() yield is live.
C30_HeapEntriesLive ==
    /\ \A k \in DOMAIN asks_heap : asks_heap[k] >= EPSILON
    /\ \A k \in DOMAIN bids_heap : bids_heap[k] >= EPSILON
    /\ \A k \in 1 .. Len(asks_iter) : asks_iter[k].size >= EPSILON
    /\ \A k \in 1 .. Len(bids_iter) : bids_iter[k].size >= EPSILON

\* A heap that holds a level of the smallest live size next to a larger one.
C30_HeapAtBoundary ==
    /\ fault = "none"
    /\ \E k \in DOMAIN bids_heap : bids_heap[k] = EPSILON
    /\ \E k \in DOMAIN bids_heap : bids_heap[k] > EPSILON

\* C31 (read arithmetic in range): in every reachable state, the fresh book
\* and the states where the array of a side has no live level included,
\* the tick arithmetic of the reads stays inside the u32 range:
\* best_bid_i <= bids_0_tick, so that bids_0_tick - best_bid_i of best_bid()
\* does not underflow, and asks_0_tick + best_ask_i <= 2^32 - 1, so that
\* best_ask() does not overflow.
C31_ReadArithmeticInRange ==
    /\ best_bid_i <= bids_0_tick
    /\ asks_0_tick + best_ask_i <= U32_MAX

\* C32 (idempotence): applying the same valid TickUpdate twice in a row
\* leaves the book in exactly the state reached after the first
\* application: the same anchors, best indices, array slots and heap
\* contents on both sides.  Checked on every book a call can start from,
\* for the updates of one side and the updates of one level a side.
Twice(b, update) == process_tick_update(process_tick_update(b, update), update)

SameBook(b, c) == AskSide(b) = AskSide(c) /\ BidSide(b) = BidSide(c)

C32_Idempotence ==
    fault = "none" =>
        /\ \A a \in AskLevels :
             SameBook(Twice(Book, AsksOnly(a)), process_tick_update(Book, AsksOnly(a)))
        /\ \A b \in BidLevels :
             SameBook(Twice(Book, BidsOnly(b)), process_tick_update(Book, BidsOnly(b)))
        /\ \A l \in TickLevel, m \in TickLevel :
             LET update == [sequence_id |-> 0, asks |-> <<l>>, bids |-> <<m>>]
             IN  SameBook(Twice(Book, update), process_tick_update(Book, update))

\* ------------------------------------------------- OrderBook of src/src/lib.rs
\* insert_ask, insert_bid, rebalance_asks_lower and rebalance_bids_higher of
\* src/src/lib.rs have, statement for statement, the text of src/src/book.rs.
lib_insert_ask(b, ask) == insert_ask(b, ask)
lib_insert_bid(b, bid) == insert_bid(b, bid)
lib_rebalance_asks_lower(b, lowest_tick) == rebalance_asks_lower(b, lowest_tick)
lib_rebalance_bids_higher(b, highest_tick) == rebalance_bids_higher(b, highest_tick)

\* process_tick_update of src/src/lib.rs: the favourable rebalance and the
\* inserts; no new best inside the window and no Step C.
lib_process_asks(b, new_asks) ==
    LET b1 == IF new_asks = <<>> THEN b
              ELSE
                LET lowest_ask == Head(new_asks)
                    a1 == IF lowest_ask.tick < b.asks_0_tick
                            THEN LET r == lib_rebalance_asks_lower(b, lowest_ask.tick)
                                 IN  [r EXCEPT !.best_ask_i = as_u16(
                                        wrapping_sub(lowest_ask.tick, r.asks_0_tick))]
                            ELSE b
                IN  lib_insert_ask(a1, lowest_ask)
    IN  IF new_asks = <<>> THEN b1 ELSE ForEach(lib_insert_ask, b1, Tail(new_asks))

lib_process_bids(b, new_bids) ==
    LET b1 == IF new_bids = <<>> THEN b
              ELSE
                LET highest_bid == Head(new_bids)
                    a1 == IF highest_bid.tick > b.bids_0_tick
                            THEN LET r == lib_rebalance_bids_higher(b, highest_bid.tick)
                                     r1 == RaiseIf(r, r.bids_0_tick < highest_bid.tick,
                                             "process_tick_update: best_bid_i overflow")
                                 IN  [r1 EXCEPT !.best_bid_i = as_u16(
                                        wrapping_sub(r.bids_0_tick, highest_bid.tick))]
                            ELSE b
                IN  lib_insert_bid(a1, highest_bid)
    IN  IF new_bids = <<>> THEN b1 ELSE ForEach(lib_insert_bid, b1, Tail(new_bids))

lib_process_tick_update(b, update) ==
    LET b0 == [b EXCEPT !.sequence_id = update.sequence_id]
    IN  lib_process_bids(lib_process_asks(b0, update.asks), update.bids)

\* The same stream sent to both definitions, one level at a time: the
\* OrderBook of book.rs is the book, that of lib.rs the second book.
BothDefinitions(update) ==
    /\ ProcessTickUpdate(update)
    /\ reference' = lib_process_tick_update(reference, update)
    /\ UNCHANGED <<history_vars, sent_sequence_id, prior_sequence_id, side_vars>>

AskFeedBoth ==
    /\ feed = "asks"
    /\ \E new_asks \in {<<>>} \cup {<<l>> : l \in PlainLevel} :
         BothDefinitions(AsksOnly(new_asks))

BidFeedBoth ==
    /\ feed = "bids"
    /\ \E new_bids \in {<<>>} \cup {<<l>> : l \in PlainLevel} :
         BothDefinitions(BidsOnly(new_bids))

InitBoth == Init /\ reference = lib_new

NextBoth == AskFeedBoth \/ BidFeedBoth

SpecBoth == InitBoth /\ [][NextBoth]_vars

\* C33 (the two definitions agree): for every valid update stream applied
\* to fresh books, the OrderBook of lib.rs and the OrderBook of book.rs end
\* every process_tick_update with identical anchors, best indices, array
\* contents and heap contents.
C33_DefinitionsAgree == SameBook(Book, reference)

\* ------------------------------------------- BTreeOrderBook of old_book.rs
\* The baseline book: two ordered maps from tick to level, the cached best
\* level of each side (None while never set), and two sequence ids.
None == [tick |-> U32_MAX + 1, size |-> 0]

BTreeOrderBook_new ==
    [ best_bid |-> None,
      best_ask |-> None,
      bids |-> << >>,
      asks |-> << >>,
      last_sequence |-> 0,
      last_bba_update_id |-> 0 ]

\* BTreeMap::insert(level.tick, level)
BTreeMap_insert(map, level) ==
    [t \in DOMAIN map \cup {level.tick} |-> IF t = level.tick THEN level ELSE map[t]]

\* map.values().next_back().cloned()
BTreeMap_last(map) ==
    IF DOMAIN map = {} THEN None
    ELSE map[CHOOSE t \in DOMAIN map : \A u \in DOMAIN map : u <= t]

\* map.values().next().cloned()
BTreeMap_first(map) ==
    IF DOMAIN map = {} THEN None
    ELSE map[CHOOSE t \in DOMAIN map : \A u \in DOMAIN map : t <= u]

update_bba(b) ==
    [b EXCEPT !.best_bid = BTreeMap_last(b.bids),
              !.best_ask = BTreeMap_first(b.asks),
              !.last_bba_update_id = b.last_sequence]

BTreeOrderBook_process_tick_update(b, event) ==
    LET cleared == [b EXCEPT !.bids = << >>, !.asks = << >>]
        with_bids == [cleared EXCEPT !.bids = ForEach(BTreeMap_insert, cleared.bids, event.bids)]
        with_asks == [with_bids EXCEPT !.asks = ForEach(BTreeMap_insert, with_bids.asks, event.asks)]
        b1 == [with_asks EXCEPT !.last_sequence = event.sequence_id]
    IN  IF event.sequence_id < b.last_bba_update_id THEN b1 ELSE update_bba(b1)

BTreeOrderBook_sequence_id(b) == b.last_sequence

\* The baseline book fed as benches/process_update.rs feeds it, under
\* sequence ids in any order; the levels lie on a few ticks, up to MaxLevels
\* on the producer's own side and at most one, of ordinary size, on the other.
BaselineAsks == {a \in AskLevels : \A k \in 1 .. Len(a) : a[k] \in CrossingLevel}

BaselineBids == {b \in BidLevels : \A k \in 1 .. Len(b) : b[k] \in CrossingLevel}

Baseline(event) ==
    /\ reference' = BTreeOrderBook_process_tick_update(reference, event)
    /\ received_asks' = event.asks
    /\ received_bids' = event.bids
    /\ sent_sequence_id' = event.sequence_id
    /\ untouched' = FALSE
    /\ UNCHANGED <<book_vars, feed, construction, prior_sequence_id, side_vars>>

AskFeedBaseline ==
    /\ feed = "asks"
    /\ \E seq \in SeqIds, new_asks \in BaselineAsks,
          new_bids \in {b \in BaselineBids : Len(b) <= 1 /\ \A k \in 1 .. Len(b) : IsLive(b[k].size)} :
         Baseline([sequence_id |-> seq, asks |-> new_asks, bids |-> new_bids])

BidFeedBaseline ==
    /\ feed = "bids"
    /\ \E seq \in SeqIds, new_bids \in BaselineBids,
          new_asks \in {a \in BaselineAsks : Len(a) <= 1 /\ \A k \in 1 .. Len(a) : IsLive(a[k].size)} :
         Baseline([sequence_id |-> seq, asks |-> new_asks, bids |-> new_bids])

InitBaseline ==
    /\ sequence_id = new.sequence_id
    /\ asks_0_tick = new.asks_0_tick
    /\ bids_0_tick = new.bids_0_tick
    /\ best_ask_i  = new.best_ask_i
    /\ best_bid_i  = new.best_bid_i
    /\ asks        = new.asks
    /\ bids        = new.bids
    /\ asks_heap   = new.asks_heap
    /\ bids_heap   = new.bids_heap
    /\ fault       = new.fault
    /\ untouched   = TRUE
    /\ received_asks = <<>>
    /\ received_bids = <<>>
    /\ sent_sequence_id = 0
    /\ prior_sequence_id = 0
    /\ reference = BTreeOrderBook_new
    /\ one_sided = [asks |-> new, bids |-> new]
    /\ feed \in {"asks", "bids"}
    /\ construction = NoConstruction

NextBaseline == AskFeedBaseline \/ BidFeedBaseline

SpecBaseline == InitBaseline /\ [][NextBaseline]_vars

\* The levels of a list, by tick.
LevelsOf(levels) ==
    [t \in Named(levels) |-> CHOOSE l \in {levels[k] : k \in 1 .. Len(levels)} : l.tick = t]

\* The cached best level is the entry of the map no other entry beats
\* (None for an empty map); Beats(t, u) says tick t is better than tick u.
IsBestOf(best, map, Beats(_, _)) ==
    IF DOMAIN map = {} THEN best = None
    ELSE /\ best.tick \in DOMAIN map
         /\ best = map[best.tick]
         /\ \A t \in DOMAIN map : ~Beats(t, best.tick)

Higher(t, u) == t > u

Lower(t, u) == t < u

\* C34 (baseline book): in the BTreeOrderBook, after every
\* process_tick_update the maps hold exactly the levels of the last update
\* (all earlier levels are discarded), sequence_id() returns the last
\* update's id, best_bid is the highest-tick entry of bids and best_ask the
\* lowest-tick entry of asks, and last_bba_update_id never decreases, for
\* every order of sequence ids.
C34_BaselineBook ==
    /\ [](~untouched =>
            /\ reference.asks = LevelsOf(received_asks)
            /\ reference.bids = LevelsOf(received_bids)
            /\ BTreeOrderBook_sequence_id(reference) = sent_sequence_id
            /\ IsBestOf(reference.best_bid, reference.bids, Higher)
            /\ IsBestOf(reference.best_ask, reference.asks, Lower))
    /\ [][reference'.last_bba_update_id >= reference.last_bba_update_id]_vars

====
